---- MODULE Spec2Model ----
(***************************************************************************)
(* Model of the exam proctoring core:                                      *)
(*   utils/cheating_probability.py  CheatingProbabilityCalculator          *)
(*   main.py                        the per-frame violation classifier     *)
(*   utils/alert_system.py          AlertSystem (cooldown, audio threads)  *)
(*   reporting/report_generator.py  ReportGenerator._calculate_stats,      *)
(*                                  generate_report                        *)
(*   main.py                        main(): setup, frame loop, finally     *)
(***************************************************************************)
EXTENDS Integers, Sequences, FiniteSets, Bags

VARIABLES
    \* CheatingProbabilityCalculator
    window_size,     \* self.window_size
    history,         \* self.history, a deque(maxlen=window_size), oldest first
    results,         \* the frame signals of the latest update call
    ret,             \* what the latest update call returned
    frame_score,     \* the score compute_frame_score gave the latest frame
    pushed,          \* history variable: every frame score pushed so far
    \* main loop
    violation_type,  \* main(): the label the classifier gave the latest frame
    \* ReportGenerator
    violations,      \* the violation list handed to _calculate_stats
    stats,           \* what _calculate_stats returned for it
    \* AlertSystem
    audio_enabled,   \* self.audio_enabled
    audio_init_ok,   \* history variable: whether pygame.mixer.init() succeeded
    alert_cooldown,  \* self.alert_cooldown
    last_alert_time, \* self.last_alert_time, a dict: alert type -> time
    clock,           \* what time.time() returns now
    call,            \* per calling thread: its position in speak_alert and the
                     \* alert type of its latest call
    threads,         \* the bag of running _play_audio threads
    temp_files_left, \* temporary files on disk whose thread has ended
    n_calls,         \* history variable: speak_alert calls made so far
    emitted,         \* history variable: per alert type, threads started so far
    \* main(): the session
    session_pc,      \* the position of the main thread in main()
    exc,             \* the exception on its way out of main(), by where it was raised
    screen_recording,\* config['screen']['recording']
    screen_recorder, \* the screen recorder: idle, recording or stopped
    video_recorder,  \* the webcam recorder: idle, recording or stopped
    violation_log,   \* what violation_logger.log_violation was called with, in order
    frame_log,       \* history variable: label, probability and reasons of every
                     \* frame the loop has assessed
    PDFKIT_AVAILABLE,\* whether pdfkit could be imported
    report           \* the progress and the result of generate_report

frameVars == <<window_size, history, results, ret, frame_score, pushed, violation_type>>
statsVars == <<violations, stats>>
alertVars == <<audio_enabled, audio_init_ok, alert_cooldown, last_alert_time, clock,
               call, threads, temp_files_left, n_calls, emitted>>
sessionVars == <<session_pc, exc, screen_recording, screen_recorder, video_recorder,
                 violation_log, frame_log, PDFKIT_AVAILABLE, report>>
vars == <<window_size, history, results, ret, frame_score, pushed, violation_type,
          violations, stats,
          audio_enabled, audio_init_ok, alert_cooldown, last_alert_time, clock,
          call, threads, temp_files_left, n_calls, emitted,
          session_pc, exc, screen_recording, screen_recorder, video_recorder,
          violation_log, frame_log, PDFKIT_AVAILABLE, report>>

----------------------------------------------------------------------------
(* Bounds of the model *)

\* calculators are built with window_size in 1..MaxWindow
MaxWindow == 3
\* update is called at most MaxCalls times on such a calculator
MaxCalls == 4
\* the main loop processes at most MaxLoopFrames frames
MaxLoopFrames == 2
\* the scenario feeds at most MaxPrefix varying frames before the constant run
MaxPrefix == 1
\* and at most MaxExtra frames beyond one full window after them
MaxExtra == 1
\* _calculate_stats is given lists of at most MaxViolations violations
MaxViolations == 3
\* the clock runs from 0 to MaxTime
MaxTime == 4
\* config['logging']['alert_cooldown'] is in 1..MaxCooldown
MaxCooldown == 2
\* speak_alert is called at most MaxDispatch times
MaxDispatch == 3
\* at most MaxThreads _play_audio threads run at a time
MaxThreads == 2

\* main.py: CheatingProbabilityCalculator(window_size=30)
DefaultWindow == 30

----------------------------------------------------------------------------
(* Frame signals *)

Gaze == {"Center", "Left", "Right", "Up", "Down"}

\* the keys of the results dict that the calculator and the classifier read
FrameSignals ==
    [face_present : BOOLEAN, multiple_faces : BOOLEAN, objects_detected : BOOLEAN,
     mouth_moving : BOOLEAN, gaze_direction : Gaze]

\* the frames fed to the small-window calculators: face, second face and gaze vary
WindowFrames ==
    {r \in FrameSignals : ~r.objects_detected /\ ~r.mouth_moving
                           /\ r.gaze_direction \in {"Center", "Left"}}

\* results as main() builds it before the detectors fill it in
NoFrame ==
    [face_present |-> FALSE, multiple_faces |-> FALSE, objects_detected |-> FALSE,
     mouth_moving |-> FALSE, gaze_direction |-> "Center"]

----------------------------------------------------------------------------
(* CheatingProbabilityCalculator *)

weights ==
    [FACE_DISAPPEARED |-> 40, MULTIPLE_FACES |-> 50, OBJECT_DETECTED |-> 45,
     MOUTH_MOVING |-> 20, GAZE_AWAY |-> 15]

Min(a, b) == IF a < b THEN a ELSE b

\* score after the five tests of compute_frame_score, before the clamp
RawScore(r) ==
    LET s0 == 0
        s1 == IF ~r.face_present THEN s0 + weights.FACE_DISAPPEARED ELSE s0
        s2 == IF r.multiple_faces THEN s1 + weights.MULTIPLE_FACES ELSE s1
        s3 == IF r.objects_detected THEN s2 + weights.OBJECT_DETECTED ELSE s2
        s4 == IF r.mouth_moving THEN s3 + weights.MOUTH_MOVING ELSE s3
        s5 == IF r.gaze_direction # "Center" THEN s4 + weights.GAZE_AWAY ELSE s4
    IN  s5

\* ReasonList gone wrong: the reasons are cut where the sum passed 100
ReasonListTruncated(r) ==
    LET r0 == <<>>
        r1 == IF ~r.face_present THEN Append(r0, "Face not visible") ELSE r0
        r2 == IF r.multiple_faces THEN Append(r1, "Multiple faces detected") ELSE r1
        r3 == IF r.objects_detected THEN Append(r2, "Suspicious object detected") ELSE r2
        r4 == IF r.mouth_moving THEN Append(r3, "Mouth movement detected") ELSE r3
        r5 == IF r.gaze_direction # "Center"
              THEN Append(r4, "Looking away from screen") ELSE r4
    IN  IF RawScore(r) > 100 THEN SubSeq(r5, 1, Len(r5) - 1) ELSE r5

\* reasons after the five tests of compute_frame_score
ReasonList(r) ==
    LET r0 == <<>>
        r1 == IF ~r.face_present THEN Append(r0, "Face not visible") ELSE r0
        r2 == IF r.multiple_faces THEN Append(r1, "Multiple faces detected") ELSE r1
        r3 == IF r.objects_detected THEN Append(r2, "Suspicious object detected") ELSE r2
        r4 == IF r.mouth_moving THEN Append(r3, "Mouth movement detected") ELSE r3
        r5 == IF r.gaze_direction # "Center"
              THEN Append(r4, "Looking away from screen") ELSE r4
    IN  r5

\* compute_frame_score gone wrong: the sum is returned unclamped
compute_frame_score_noclamp(r) ==
    [score |-> RawScore(r), reasons |-> ReasonList(r)]

compute_frame_score(r) ==
    [score |-> Min(RawScore(r), 100), reasons |-> ReasonList(r)]

\* DequeAppend gone wrong: the deque is unbounded, nothing is evicted
DequeAppendUnbounded(d, x, maxlen) == Append(d, x)

\* DequeAppend gone wrong: a full deque drops the new score, not the oldest
DequeAppendKeepOldest(d, x, maxlen) ==
    IF Len(d) >= maxlen THEN d ELSE Append(d, x)

\* deque(maxlen=maxlen).append(x): a full deque discards its oldest (left) item
DequeAppend(d, x, maxlen) ==
    IF maxlen = 0 THEN d
    ELSE IF Len(d) >= maxlen THEN Append(Tail(d), x)
    ELSE Append(d, x)

RECURSIVE SeqSum(_)
\* sum(self.history)
SeqSum(s) == IF s = <<>> THEN 0 ELSE Head(s) + SeqSum(Tail(s))

\* int(a / b) for a >= 0 and b > 0: the float quotient of two small integers is
\* within rounding of the exact one, and int() truncates it
IntOfQuotient(a, b) == a \div b

\* Update gone wrong: the sum is divided by window_size, not by len(history)
UpdateDivWindow(r) ==
    LET fs == compute_frame_score(r)
        h  == DequeAppend(history, fs.score, window_size)
    IN  /\ history' = h
        /\ ret' = [avg_score |-> IntOfQuotient(SeqSum(h), window_size),
                   reasons |-> fs.reasons]
        /\ frame_score' = fs.score
        /\ results' = r
        /\ pushed' = Append(pushed, fs.score)
        /\ UNCHANGED window_size

\* update(results)
Update(r) ==
    LET fs == compute_frame_score(r)
        h  == DequeAppend(history, fs.score, window_size)
    IN  /\ history' = h
        /\ ret' = [avg_score |-> IntOfQuotient(SeqSum(h), Len(h)),
                   reasons |-> fs.reasons]
        /\ frame_score' = fs.score
        /\ results' = r
        /\ pushed' = Append(pushed, fs.score)
        /\ UNCHANGED window_size

\* CheatingProbabilityCalculator(window_size=w)
CalcInit(w) ==
    /\ window_size = w
    /\ history = <<>>
    /\ results = NoFrame
    /\ ret = [avg_score |-> 0, reasons |-> <<>>]
    /\ frame_score = 0
    /\ pushed = <<>>

----------------------------------------------------------------------------
(* main(): the violation classifier *)

\* Classify gone wrong: a second face is tested before the missing face
ClassifyMultiFirst(r) ==
    IF r.multiple_faces THEN "MULTIPLE_FACES"
    ELSE IF ~r.face_present THEN "FACE_DISAPPEARED"
    ELSE IF r.objects_detected THEN "OBJECT_DETECTED"
    ELSE IF r.mouth_moving THEN "MOUTH_MOVING"
    ELSE "None"

Classify(r) ==
    IF ~r.face_present THEN "FACE_DISAPPEARED"
    ELSE IF r.multiple_faces THEN "MULTIPLE_FACES"
    ELSE IF r.objects_detected THEN "OBJECT_DETECTED"
    ELSE IF r.mouth_moving THEN "MOUTH_MOVING"
    ELSE "None"

\* one iteration of the frame loop: the detectors fill results, the calculator
\* is updated, the frame is classified
Frame(r) ==
    /\ Len(pushed) < MaxLoopFrames
    /\ Update(r)
    /\ violation_type' = Classify(r)
    /\ UNCHANGED <<statsVars, alertVars>>

----------------------------------------------------------------------------
(* ReportGenerator._calculate_stats *)

severity_map ==
    [FACE_DISAPPEARED |-> 1, GAZE_AWAY |-> 2, MOUTH_MOVING |-> 3,
     MULTIPLE_FACES |-> 4, OBJECT_DETECTED |-> 5, AUDIO_DETECTED |-> 3]

\* self.severity_map.get(t, 1)
SeverityGet(t) == IF t \in DOMAIN severity_map THEN severity_map[t] ELSE 1

\* the violation types the lists are drawn from; the last has no severity entry
StatsTypes == {"FACE_DISAPPEARED", "GAZE_AWAY", "OBJECT_DETECTED", "SPEECH_VIOLATION"}
\* the timestamps the lists are drawn from
StatsTimes == {"t1", "t2"}
Violation == [type : StatsTypes, timestamp : StatsTimes]
ViolationLists == UNION {[1..n -> Violation] : n \in 0..MaxViolations}

RECURSIVE Gcd(_, _)
Gcd(a, b) == IF b = 0 THEN a ELSE Gcd(b, a % b)

\* a / b for integers a >= 0, b > 0: the float nearest to the quotient, held
\* as the quotient in lowest terms
TrueDiv(a, b) == [num |-> a \div Gcd(a, b), den |-> b \div Gcd(a, b)]

\* the int 0 that average_severity starts as
ZeroAverage == [num |-> 0, den |-> 1]

\* by_type.get(t, 0)
CountGet(by_type, t) == IF t \in DOMAIN by_type THEN by_type[t] ELSE 0

\* by_type[t] = n
CountSet(by_type, t, n) ==
    [u \in DOMAIN by_type \cup {t} |-> IF u = t THEN n ELSE by_type[u]]

\* StatsLoopBody gone wrong: every violation counts with severity 1
StatsLoopBodyFlat(st, v) ==
    [st EXCEPT
        !.by_type = CountSet(st.by_type, v.type, CountGet(st.by_type, v.type) + 1),
        !.severity_score = st.severity_score + 1,
        !.timeline = Append(st.timeline,
                            [time |-> v.timestamp, type |-> v.type, severity |-> 1])]

\* one iteration of the for loop of _calculate_stats
StatsLoopBody(st, v) ==
    LET severity == SeverityGet(v.type)
    IN  [st EXCEPT
            !.by_type = CountSet(st.by_type, v.type, CountGet(st.by_type, v.type) + 1),
            !.severity_score = st.severity_score + severity,
            !.timeline = Append(st.timeline,
                                [time |-> v.timestamp, type |-> v.type,
                                 severity |-> severity])]

RECURSIVE StatsLoop(_, _)
\* the for loop of _calculate_stats over the list vs, first to last
StatsLoop(st, vs) ==
    IF vs = <<>> THEN st ELSE StatsLoop(StatsLoopBody(st, Head(vs)), Tail(vs))

calculate_stats(vs) ==
    LET st0 == [total |-> Len(vs), by_type |-> <<>>, timeline |-> <<>>,
                severity_score |-> 0, average_severity |-> ZeroAverage]
        st1 == StatsLoop(st0, vs)
    IN  IF st1.total > 0
        THEN [st1 EXCEPT !.average_severity = TrueDiv(st1.severity_score, st1.total)]
        ELSE st1

\* no report has been asked for
NoStats == [computed |-> FALSE]

\* self._calculate_stats(violations)
CalculateStats ==
    /\ ~stats.computed
    /\ stats' = [computed |-> TRUE, value |-> calculate_stats(violations)]
    /\ UNCHANGED violations
    /\ UNCHANGED <<frameVars, alertVars, sessionVars>>

StatsIdle == violations = <<>> /\ stats = NoStats

----------------------------------------------------------------------------
(* AlertSystem *)

\* the keys of self.alerts
alerts ==
    {"FACE_DISAPPEARED", "FACE_REAPPEARED", "MULTIPLE_FACES", "OBJECT_DETECTED",
     "GAZE_AWAY", "MOUTH_MOVING", "SPEECH_VIOLATION", "VOICE_DETECTED"}

\* the alert types speak_alert is called with; the last is not a key of alerts
DispatchTypes == {"FACE_DISAPPEARED", "MOUTH_MOVING", "UNLISTED"}

\* the threads that call speak_alert
Callers == {"main"}

\* d.get(k, default)
DictGet(d, k, default) == IF k \in DOMAIN d THEN d[k] ELSE default

\* DictSet gone wrong: one time is kept for all the keys
DictSetAll(d, k, v) == [j \in DOMAIN d \cup {k} |-> v]

\* d[k] = v
DictSet(d, k, v) == [j \in DOMAIN d \cup {k} |-> IF j = k THEN v ELSE d[j]]

\* can_alert gone wrong: exactly cooldown elapsed is not enough
can_alert_strict(alert_type) ==
    (clock - DictGet(last_alert_time, alert_type, 0)) > alert_cooldown

\* can_alert gone wrong: the stored time is not read
can_alert_no_last(alert_type) ==
    (clock - 0) >= alert_cooldown

\* _can_alert(alert_type), reading the clock
can_alert(alert_type) ==
    LET current_time == clock
        last_time == DictGet(last_alert_time, alert_type, 0)
    IN  (current_time - last_time) >= alert_cooldown

\* AlertSystem(config): pygame.mixer.init() succeeds or raises
AlertInit ==
    /\ audio_init_ok \in BOOLEAN
    /\ audio_enabled = audio_init_ok
    /\ alert_cooldown \in 1..MaxCooldown
    /\ last_alert_time = <<>>
    /\ clock = 0
    /\ call = [c \in Callers |-> [pc |-> "idle", alert_type |-> "None"]]
    /\ threads = EmptyBag
    /\ temp_files_left = 0
    /\ n_calls = 0
    /\ emitted = [t \in DispatchTypes |-> 0]

\* speak_alert returns to its caller
Return(c, alert_type) ==
    call' = [call EXCEPT ![c] = [pc |-> "idle", alert_type |-> alert_type]]

\* SpeakAlertCheck gone wrong: the audio_enabled test is missing
SpeakAlertCheckNoAudioTest(c, alert_type) ==
    /\ call[c].pc = "idle"
    /\ n_calls < MaxDispatch
    /\ can_alert(alert_type) => BagCardinality(threads) < MaxThreads
    /\ n_calls' = n_calls + 1
    /\ IF ~can_alert(alert_type) THEN Return(c, alert_type)
       ELSE call' = [call EXCEPT ![c] = [pc |-> "set", alert_type |-> alert_type]]
    /\ UNCHANGED <<audio_enabled, audio_init_ok, alert_cooldown, last_alert_time,
                   clock, threads, temp_files_left, emitted>>
    /\ UNCHANGED <<frameVars, statsVars>>

\* speak_alert(alert_type), up to the cooldown test. The first two guards after
\* the position bound the model: the number of calls, and the number of threads
\* running when one more would be started.
SpeakAlertCheck(c, alert_type) ==
    /\ call[c].pc = "idle"
    /\ n_calls < MaxDispatch
    /\ (audio_enabled /\ can_alert(alert_type)) => BagCardinality(threads) < MaxThreads
    /\ n_calls' = n_calls + 1
    /\ IF ~audio_enabled THEN Return(c, alert_type)
       ELSE IF ~can_alert(alert_type) THEN Return(c, alert_type)
       ELSE call' = [call EXCEPT ![c] = [pc |-> "set", alert_type |-> alert_type]]
    /\ UNCHANGED <<audio_enabled, audio_init_ok, alert_cooldown, last_alert_time,
                   clock, threads, temp_files_left, emitted>>
    /\ UNCHANGED <<frameVars, statsVars>>

\* a _play_audio thread as threading.Thread(...).start() leaves it
NewThread(alert_type) ==
    [alert_type |-> alert_type, pc |-> "start", temp_path |-> "None"]

\* speak_alert(alert_type), from the cooldown test on: the clock is read again,
\* the time is stored and the thread is started
SpeakAlertEmit(c) ==
    /\ call[c].pc = "set"
    /\ last_alert_time' = DictSet(last_alert_time, call[c].alert_type, clock)
    /\ threads' = threads (+) SetToBag({NewThread(call[c].alert_type)})
    /\ emitted' = [emitted EXCEPT ![call[c].alert_type] = @ + 1]
    /\ Return(c, call[c].alert_type)
    /\ UNCHANGED <<audio_enabled, audio_init_ok, alert_cooldown, clock,
                   temp_files_left, n_calls>>
    /\ UNCHANGED <<frameVars, statsVars>>

\* the thread th takes a step to the state th2
ThreadStep(th, th2) ==
    threads' = (threads (-) SetToBag({th})) (+) SetToBag({th2})

\* what no step of _play_audio changes
PlayFrame ==
    /\ UNCHANGED <<audio_enabled, audio_init_ok, alert_cooldown, last_alert_time,
                   clock, call, n_calls, emitted>>
    /\ UNCHANGED <<frameVars, statsVars, sessionVars>>

\* PlayLookup gone wrong: the alert type is not looked up before the synthesis
PlayLookupNoTest(th) ==
    /\ th.pc = "start"
    /\ ThreadStep(th, [th EXCEPT !.pc = "synth"])
    /\ UNCHANGED temp_files_left
    /\ PlayFrame

\* _play_audio: the lookup of the alert type
PlayLookup(th) ==
    /\ th.pc = "start"
    /\ IF th.alert_type \notin alerts
       THEN ThreadStep(th, [th EXCEPT !.pc = "finally"])
       ELSE ThreadStep(th, [th EXCEPT !.pc = "synth"])
    /\ UNCHANGED temp_files_left
    /\ PlayFrame

\* PlaySynth gone wrong: a failed synthesis turns audio off for the session
PlaySynthDisablesAudio(th) ==
    /\ th.pc = "synth"
    /\ \/ /\ ThreadStep(th, [th EXCEPT !.pc = "finally"])
          /\ audio_enabled' = FALSE
       \/ /\ ThreadStep(th, [th EXCEPT !.pc = "finally", !.temp_path = "file"])
          /\ audio_enabled' = FALSE
       \/ /\ ThreadStep(th, [th EXCEPT !.pc = "play", !.temp_path = "file"])
          /\ UNCHANGED audio_enabled
    /\ UNCHANGED <<audio_init_ok, alert_cooldown, last_alert_time, clock, call,
                   n_calls, emitted, temp_files_left>>
    /\ UNCHANGED <<frameVars, statsVars, sessionVars>>

\* _play_audio: gTTS(...), NamedTemporaryFile(...) and tts.save(temp_path)
PlaySynth(th) ==
    /\ th.pc = "synth"
    /\ \/ \* gTTS(...) or NamedTemporaryFile(...) raises: no file was created
          ThreadStep(th, [th EXCEPT !.pc = "finally"])
       \/ \* the file is created and tts.save raises
          ThreadStep(th, [th EXCEPT !.pc = "finally", !.temp_path = "file"])
       \/ \* the speech is saved
          ThreadStep(th, [th EXCEPT !.pc = "play", !.temp_path = "file"])
    /\ UNCHANGED temp_files_left
    /\ PlayFrame

\* _play_audio: pygame.mixer.music.load(temp_path) and play()
PlayPlayback(th) ==
    /\ th.pc = "play"
    /\ \/ \* load or play raises
          ThreadStep(th, [th EXCEPT !.pc = "finally"])
       \/ ThreadStep(th, [th EXCEPT !.pc = "wait"])
    /\ UNCHANGED temp_files_left
    /\ PlayFrame

\* PlayWait gone wrong: the thread stamps the cooldown when playback ends
PlayWaitStampsCooldown(th) ==
    /\ th.pc = "wait"
    /\ ThreadStep(th, [th EXCEPT !.pc = "finally"])
    /\ last_alert_time' = DictSet(last_alert_time, th.alert_type, clock)
    /\ UNCHANGED <<audio_enabled, audio_init_ok, alert_cooldown, clock, call,
                   n_calls, emitted, temp_files_left>>
    /\ UNCHANGED <<frameVars, statsVars, sessionVars>>

\* _play_audio: the wait until get_busy() is false
PlayWait(th) ==
    /\ th.pc = "wait"
    /\ ThreadStep(th, [th EXCEPT !.pc = "finally"])
    /\ UNCHANGED temp_files_left
    /\ PlayFrame

\* _play_audio: the finally block, and the end of the thread
PlayFinally(th) ==
    /\ th.pc = "finally"
    /\ threads' = threads (-) SetToBag({th})
    /\ IF th.temp_path # "None"
       THEN \/ \* os.remove(temp_path) deletes the file
               UNCHANGED temp_files_left
            \/ \* os.remove(temp_path) raises, which is swallowed
               temp_files_left' = temp_files_left + 1
       ELSE UNCHANGED temp_files_left
    /\ PlayFrame

\* time passes
Tick ==
    /\ clock < MaxTime
    /\ clock' = clock + 1
    /\ UNCHANGED <<audio_enabled, audio_init_ok, alert_cooldown, last_alert_time,
                   call, threads, temp_files_left, n_calls, emitted>>
    /\ UNCHANGED <<frameVars, statsVars, sessionVars>>

\* the system clock is set back
ClockSetBack ==
    /\ \E t \in 0..MaxTime : t < clock /\ clock' = t
    /\ UNCHANGED <<audio_enabled, audio_init_ok, alert_cooldown, last_alert_time,
                   call, threads, temp_files_left, n_calls, emitted>>
    /\ UNCHANGED <<frameVars, statsVars, sessionVars>>

\* no AlertSystem is in use
AlertIdle ==
    /\ audio_enabled = FALSE
    /\ audio_init_ok = FALSE
    /\ alert_cooldown = 1
    /\ last_alert_time = <<>>
    /\ clock = 0
    /\ call = [c \in Callers |-> [pc |-> "idle", alert_type |-> "None"]]
    /\ threads = EmptyBag
    /\ temp_files_left = 0
    /\ n_calls = 0
    /\ emitted = [t \in DispatchTypes |-> 0]

----------------------------------------------------------------------------
(* main(): the session *)

\* generate_report has not been called
NoReport == [html_written |-> FALSE, pdf_failed |-> FALSE, path |-> "unset",
             printed |-> "nothing"]

\* no session is running
SessionIdle ==
    /\ session_pc = "idle"
    /\ exc = "none"
    /\ screen_recording = FALSE
    /\ screen_recorder = "idle"
    /\ video_recorder = "idle"
    /\ violation_log = <<>>
    /\ frame_log = <<>>
    /\ PDFKIT_AVAILABLE = FALSE
    /\ report = NoReport

\* the frames the detectors report during the session: a quiet frame and a
\* frame without a face
SessionFrames ==
    {r \in FrameSignals : /\ ~r.multiple_faces /\ ~r.objects_detected
                           /\ ~r.mouth_moving /\ r.gaze_direction = "Center"}

\* the positions of the main thread inside the while loop
LoopPcs == {"read", "dispatch", "speak_alert", "display"}

\* main() has neither returned nor raised: the process and with it the daemon
\* threads of the alerts are alive
Running == session_pc \notin {"done", "raised"}

\* main() up to its try statement: the objects are built, nothing is started
SessionInit ==
    /\ session_pc = "setup"
    /\ exc = "none"
    /\ screen_recording \in BOOLEAN
    /\ screen_recorder = "idle"
    /\ video_recorder = "idle"
    /\ violation_log = <<>>
    /\ frame_log = <<>>
    /\ PDFKIT_AVAILABLE \in BOOLEAN
    /\ report = NoReport

\* the screen recorder is started when the configuration asks for it
SetupScreen ==
    /\ session_pc = "setup"
    /\ screen_recorder' = IF screen_recording THEN "recording" ELSE screen_recorder
    /\ session_pc' = "setup_video"
    /\ UNCHANGED <<exc, screen_recording, video_recorder, violation_log, frame_log,
                   PDFKIT_AVAILABLE, report>>
    /\ UNCHANGED <<frameVars, statsVars, alertVars>>

\* the detectors are built, the webcam recorder is started, the capture is opened
SetupVideo ==
    /\ session_pc = "setup_video"
    /\ video_recorder' = "recording"
    /\ session_pc' = "read"
    /\ UNCHANGED <<exc, screen_recording, screen_recorder, violation_log, frame_log,
                   PDFKIT_AVAILABLE, report>>
    /\ UNCHANGED <<frameVars, statsVars, alertVars>>

\* a statement of the setup raises: control goes to the finally clause
SetupRaise ==
    /\ \/ \* starting the screen recorder raises
          /\ session_pc = "setup"
          /\ UNCHANGED video_recorder
       \/ \* building a detector raises, before the webcam recorder is started
          /\ session_pc = "setup_video"
          /\ UNCHANGED video_recorder
       \/ \* opening the capture raises, after the webcam recorder was started
          /\ session_pc = "setup_video"
          /\ video_recorder' = "recording"
    /\ exc' = "setup"
    /\ session_pc' = "finally"
    /\ UNCHANGED <<screen_recording, screen_recorder, violation_log, frame_log,
                   PDFKIT_AVAILABLE, report>>
    /\ UNCHANGED <<frameVars, statsVars, alertVars>>

\* one iteration of the while loop up to the classifier: a frame is read, the
\* detectors fill results, the calculator is updated, the frame is classified
LoopFrame(r) ==
    /\ session_pc = "read"
    /\ Frame(r)
    /\ frame_log' = Append(frame_log,
                           [type |-> violation_type',
                            cheating_probability |-> ret'.avg_score,
                            cheating_reasons |-> ret'.reasons])
    /\ session_pc' = IF violation_type' # "None" THEN "dispatch" ELSE "display"
    /\ UNCHANGED <<exc, screen_recording, screen_recorder, video_recorder,
                   violation_log, PDFKIT_AVAILABLE, report>>

\* cap.read() returns no frame: break
LoopExhausted ==
    /\ session_pc = "read"
    /\ session_pc' = "finally"
    /\ UNCHANGED <<exc, screen_recording, screen_recorder, video_recorder,
                   violation_log, frame_log, PDFKIT_AVAILABLE, report>>
    /\ UNCHANGED <<frameVars, statsVars, alertVars>>

\* if violation_type: alert_system.speak_alert(violation_type), to its cooldown test
LoopDispatch ==
    /\ session_pc = "dispatch"
    /\ SpeakAlertCheck("main", violation_type)
    /\ session_pc' = "speak_alert"
    /\ UNCHANGED <<exc, screen_recording, screen_recorder, video_recorder,
                   violation_log, frame_log, PDFKIT_AVAILABLE, report>>

\* the rest of that speak_alert call, when the cooldown test let it through
LoopDispatchEmit ==
    /\ session_pc = "speak_alert"
    /\ SpeakAlertEmit("main")
    /\ UNCHANGED sessionVars

\* LoopRecord gone wrong: the main thread joins the _play_audio threads first
LoopRecordAfterJoin ==
    /\ session_pc = "speak_alert"
    /\ call["main"].pc = "idle"
    /\ threads = EmptyBag
    /\ violation_log' = Append(violation_log,
                               [type |-> violation_type,
                                context |-> [cheating_probability |-> ret.avg_score,
                                             cheating_reasons |-> ret.reasons]])
    /\ session_pc' = "display"
    /\ UNCHANGED <<exc, screen_recording, screen_recorder, video_recorder,
                   frame_log, PDFKIT_AVAILABLE, report>>
    /\ UNCHANGED <<frameVars, statsVars, alertVars>>

\* LoopRecord gone wrong: a violation whose alert was not spoken is not logged
LoopRecordIfSpoken ==
    /\ session_pc = "speak_alert"
    /\ call["main"].pc = "idle"
    /\ violation_log' =
          IF NewThread(violation_type) \in BagToSet(threads)
          THEN Append(violation_log,
                      [type |-> violation_type,
                       context |-> [cheating_probability |-> ret.avg_score,
                                    cheating_reasons |-> ret.reasons]])
          ELSE violation_log
    /\ session_pc' = "display"
    /\ UNCHANGED <<exc, screen_recording, screen_recorder, video_recorder,
                   frame_log, PDFKIT_AVAILABLE, report>>
    /\ UNCHANGED <<frameVars, statsVars, alertVars>>

\* speak_alert has returned: the frame is captured and
\* violation_logger.log_violation(violation_type, timestamp, {...}) is called
LoopRecord ==
    /\ session_pc = "speak_alert"
    /\ call["main"].pc = "idle"
    /\ violation_log' = Append(violation_log,
                               [type |-> violation_type,
                                context |-> [cheating_probability |-> ret.avg_score,
                                             cheating_reasons |-> ret.reasons]])
    /\ session_pc' = "display"
    /\ UNCHANGED <<exc, screen_recording, screen_recorder, video_recorder,
                   frame_log, PDFKIT_AVAILABLE, report>>
    /\ UNCHANGED <<frameVars, statsVars, alertVars>>

\* the frame is displayed and recorded; the q key breaks the loop
LoopDisplay ==
    /\ session_pc = "display"
    /\ session_pc' \in {"read", "finally"}
    /\ UNCHANGED <<exc, screen_recording, screen_recorder, video_recorder,
                   violation_log, frame_log, PDFKIT_AVAILABLE, report>>
    /\ UNCHANGED <<frameVars, statsVars, alertVars>>

\* a statement of the loop body raises. The while loop has no except clause, so
\* control goes to the finally clause of the try statement around the loop.
LoopRaise ==
    /\ \/ session_pc \in {"read", "dispatch", "display"}
       \/ session_pc = "speak_alert" /\ call["main"].pc = "idle"
    /\ exc' = "frame"
    /\ session_pc' = "finally"
    /\ UNCHANGED <<screen_recording, screen_recorder, video_recorder,
                   violation_log, frame_log, PDFKIT_AVAILABLE, report>>
    /\ UNCHANGED <<frameVars, statsVars, alertVars>>

\* the violation list as _calculate_stats reads it
ViolationsOf(log) == [i \in 1..Len(log) |-> [type |-> log[i].type, timestamp |-> "t1"]]

\* generate_report gone wrong: a failed conversion gives up the report
generate_report_pdf_or_nothing(html_ok, pdf_ok) ==
    IF ~html_ok
    THEN [html_written |-> FALSE, pdf_failed |-> FALSE, path |-> "None"]
    ELSE IF PDFKIT_AVAILABLE
    THEN IF pdf_ok
         THEN [html_written |-> TRUE, pdf_failed |-> FALSE, path |-> "pdf"]
         ELSE [html_written |-> TRUE, pdf_failed |-> TRUE, path |-> "None"]
    ELSE [html_written |-> TRUE, pdf_failed |-> FALSE, path |-> "html"]

\* generate_report(student_info, violations), output_format left at 'pdf'.
\* html_ok: nothing raises up to and including the writing of the HTML file;
\* pdf_ok: the conversion by pdfkit does not raise. What is raised before the
\* HTML file is written is caught by the outer except clause (return None),
\* what the conversion raises by the inner one (return html_path).
generate_report(html_ok, pdf_ok) ==
    IF ~html_ok
    THEN [html_written |-> FALSE, pdf_failed |-> FALSE, path |-> "None"]
    ELSE IF PDFKIT_AVAILABLE
    THEN IF pdf_ok
         THEN [html_written |-> TRUE, pdf_failed |-> FALSE, path |-> "pdf"]
         ELSE [html_written |-> TRUE, pdf_failed |-> TRUE, path |-> "html"]
    ELSE [html_written |-> TRUE, pdf_failed |-> FALSE, path |-> "html"]

\* finally: violations = violation_logger.get_violations(), generate_report and
\* the print of its result. get_ok: get_violations returns the list; when it
\* raises, the exception leaves main() at once.
FinallyReport(get_ok, html_ok, pdf_ok) ==
    /\ session_pc = "finally"
    /\ IF get_ok
       THEN LET rep == generate_report(html_ok, pdf_ok)
            IN  /\ violations' = ViolationsOf(violation_log)
                /\ stats' = IF html_ok
                            THEN [computed |-> TRUE,
                                  value |-> calculate_stats(violations')]
                            ELSE stats
                /\ report' = [html_written |-> rep.html_written,
                              pdf_failed |-> rep.pdf_failed,
                              path |-> rep.path,
                              printed |-> IF rep.path # "None"
                                          THEN "generated" ELSE "skipped"]
                /\ session_pc' = "stop"
                /\ UNCHANGED exc
       ELSE /\ exc' = "report"
            /\ session_pc' = "raised"
            /\ UNCHANGED <<violations, stats, report>>
    /\ UNCHANGED <<screen_recording, screen_recorder, video_recorder,
                   violation_log, frame_log, PDFKIT_AVAILABLE>>
    /\ UNCHANGED <<frameVars, alertVars>>

\* the rest of the finally clause: the screen recorder is stopped when the
\* configuration asked for it, the webcam recorder is stopped, the capture is
\* released and the windows are closed; then what brought control to the
\* finally clause is raised again
StopRecorders ==
    /\ session_pc = "stop"
    /\ screen_recorder' = IF screen_recording THEN "stopped" ELSE screen_recorder
    /\ video_recorder' = "stopped"
    /\ session_pc' = IF exc = "none" THEN "done" ELSE "raised"
    /\ UNCHANGED <<exc, screen_recording, violation_log, frame_log,
                   PDFKIT_AVAILABLE, report>>
    /\ UNCHANGED <<frameVars, statsVars, alertVars>>

\* the steps of the main thread that raise nothing
MainStep ==
    \/ SetupScreen
    \/ SetupVideo
    \/ \E r \in SessionFrames : LoopFrame(r)
    \/ LoopExhausted
    \/ LoopDispatch
    \/ LoopDispatchEmit
    \/ LoopRecord
    \/ LoopDisplay
    \/ \E get_ok, html_ok, pdf_ok \in BOOLEAN : FinallyReport(get_ok, html_ok, pdf_ok)
    \/ StopRecorders

----------------------------------------------------------------------------
(* Specifications *)

\* the frame loop of main(), over every combination of frame signals
FrameInit == CalcInit(DefaultWindow) /\ violation_type = "None" /\ StatsIdle /\ AlertIdle /\ SessionIdle
FrameNext == \E r \in FrameSignals : Frame(r) /\ UNCHANGED sessionVars
SpecFrame == FrameInit /\ [][FrameNext]_vars

\* a calculator of any small window size, updated with varying frames
UpdateCall(r) ==
    /\ Len(pushed) < MaxCalls
    /\ Update(r)
    /\ UNCHANGED violation_type
    /\ UNCHANGED <<statsVars, alertVars, sessionVars>>

WindowInit ==
    (\E w \in 1..MaxWindow : CalcInit(w)) /\ violation_type = "None" /\ StatsIdle /\ AlertIdle /\ SessionIdle
WindowNext == \E r \in WindowFrames : UpdateCall(r)
SpecWindow == WindowInit /\ [][WindowNext]_vars

\* the default calculator fed a short varying prefix and then one frame over
\* and over, for one full window and a little more
ScenarioFeed(r) ==
    /\ Len(pushed) < MaxPrefix + DefaultWindow + MaxExtra
    /\ \/ Len(pushed) = 0
       \/ r = results
       \/ Len(pushed) <= MaxPrefix /\ r \in WindowFrames
    /\ Update(r)
    /\ UNCHANGED violation_type
    /\ UNCHANGED <<statsVars, alertVars, sessionVars>>

ScenarioInit == CalcInit(DefaultWindow) /\ violation_type = "None" /\ StatsIdle /\ AlertIdle /\ SessionIdle
ScenarioNext == \E r \in FrameSignals : ScenarioFeed(r)
SpecScenario == ScenarioInit /\ [][ScenarioNext]_vars

\* _calculate_stats applied to any short violation list
StatsInit ==
    /\ CalcInit(DefaultWindow) /\ violation_type = "None"
    /\ violations \in ViolationLists
    /\ stats = NoStats
    /\ AlertIdle /\ SessionIdle
StatsNext == CalculateStats
SpecStats == StatsInit /\ [][StatsNext]_vars

\* an AlertSystem whose speak_alert is called from the main thread while its
\* _play_audio threads run and time passes
AlertStep ==
    \/ \E t \in DispatchTypes : SpeakAlertCheck("main", t) /\ UNCHANGED sessionVars
    \/ SpeakAlertEmit("main") /\ UNCHANGED sessionVars
    \/ \E th \in BagToSet(threads) : PlayLookup(th)
    \/ \E th \in BagToSet(threads) : PlaySynth(th)
    \/ \E th \in BagToSet(threads) : PlayPlayback(th)
    \/ \E th \in BagToSet(threads) : PlayWait(th)
    \/ \E th \in BagToSet(threads) : PlayFinally(th)

AlertSpecInit ==
    /\ CalcInit(DefaultWindow) /\ violation_type = "None" /\ StatsIdle
    /\ AlertInit /\ SessionIdle
AlertNext == AlertStep \/ Tick
SpecAlert == AlertSpecInit /\ [][AlertNext]_vars

\* the same, with a system clock that can also be set back
WallClockNext == AlertStep \/ Tick \/ ClockSetBack
SpecAlertWallClock == AlertSpecInit /\ [][WallClockNext]_vars

\* the same AlertSystem with speak_alert called from two threads at once, for
\* one alert type
ConcurrentCallers == {"main", "other"}
ConcurrentTypes == {"FACE_DISAPPEARED"}

ConcurrentInit ==
    /\ CalcInit(DefaultWindow) /\ violation_type = "None" /\ StatsIdle
    /\ audio_init_ok \in BOOLEAN
    /\ audio_enabled = audio_init_ok
    /\ alert_cooldown \in 1..MaxCooldown
    /\ last_alert_time = <<>>
    /\ clock = 0
    /\ call = [c \in ConcurrentCallers |-> [pc |-> "idle", alert_type |-> "None"]]
    /\ threads = EmptyBag
    /\ temp_files_left = 0
    /\ n_calls = 0
    /\ emitted = [t \in DispatchTypes |-> 0]
    /\ SessionIdle

ConcurrentStep ==
    \/ \E c \in ConcurrentCallers : \E t \in ConcurrentTypes :
          SpeakAlertCheck(c, t) /\ UNCHANGED sessionVars
    \/ \E c \in ConcurrentCallers : SpeakAlertEmit(c) /\ UNCHANGED sessionVars
    \/ \E th \in BagToSet(threads) : PlayLookup(th)
    \/ \E th \in BagToSet(threads) : PlaySynth(th)
    \/ \E th \in BagToSet(threads) : PlayPlayback(th)
    \/ \E th \in BagToSet(threads) : PlayWait(th)
    \/ \E th \in BagToSet(threads) : PlayFinally(th)

ConcurrentNext == ConcurrentStep \/ Tick
SpecAlertConcurrent == ConcurrentInit /\ [][ConcurrentNext]_vars

\* a whole run of main(): setup, frame loop and finally clause, with the
\* _play_audio threads of its alerts running and time passing
SessionSpecInit ==
    /\ CalcInit(DefaultWindow) /\ violation_type = "None" /\ StatsIdle
    /\ AlertInit
    /\ SessionInit

SessionNext ==
    \/ MainStep
    \/ SetupRaise
    \/ LoopRaise
    \/ \E th \in BagToSet(threads) : Running /\ PlayLookup(th)
    \/ \E th \in BagToSet(threads) : Running /\ PlaySynth(th)
    \/ \E th \in BagToSet(threads) : Running /\ PlayPlayback(th)
    \/ \E th \in BagToSet(threads) : Running /\ PlayWait(th)
    \/ \E th \in BagToSet(threads) : Running /\ PlayFinally(th)
    \/ session_pc \in LoopPcs /\ Tick

SpecSession == SessionSpecInit /\ [][SessionNext]_vars

----------------------------------------------------------------------------
(* Properties of the calculator and the classifier *)

RECURSIVE SumRange(_, _, _)
\* s[i] + ... + s[j]
SumRange(s, i, j) == IF i > j THEN 0 ELSE SumRange(s, i, j - 1) + s[j]

\* m is the mean of s[i..j] truncated to an integer
IsTruncatedMean(m, s, i, j) ==
    LET k == j - i + 1
    IN  /\ m \in Int
        /\ m * k <= SumRange(s, i, j)
        /\ SumRange(s, i, j) < (m + 1) * k

AllConditions(r) ==
    /\ ~r.face_present /\ r.multiple_faces /\ r.objects_detected
    /\ r.mouth_moving /\ r.gaze_direction # "Center"

\* C1: for every combination of frame signals compute_frame_score returns a
\* score in [0,100], also when all five conditions hold at once (raw sum 170).
C1_FrameScoreInRange ==
    Len(pushed) > 0 => frame_score \in 0..100

C1_Witness ==
    /\ Len(pushed) > 0
    /\ AllConditions(results)
    /\ RawScore(results) = 170
    /\ frame_score = 100

\* C2: after any sequence of update calls on a calculator with window_size > 0
\* the history holds at most window_size scores and every returned rolling
\* average is an integer in [0,100].
C2_WindowBounded ==
    /\ window_size > 0
    /\ Len(history) <= window_size
    /\ Len(pushed) > 0 => ret.avg_score \in 0..100

C2_Witness ==
    /\ Len(pushed) > window_size
    /\ Len(history) = window_size
    /\ ret.avg_score > 0

\* C3: the n-th call of update returns the truncated mean of exactly the last
\* min(n, window_size) frame scores (the first call returns that frame's own
\* score), paired with the reasons of the current frame only.
C3_RollingMean ==
    LET n == Len(pushed)
        k == Min(n, window_size)
    IN  n > 0 =>
          /\ IsTruncatedMean(ret.avg_score, pushed, n - k + 1, n)
          /\ n = 1 => ret.avg_score = pushed[1]
          /\ ret.reasons = ReasonList(results)
          /\ pushed[n] = frame_score

\* an old score was evicted, the mean is not a whole number, and the current
\* frame's reasons differ from those of the evicted frame
C3_Witness ==
    LET n == Len(pushed)
    IN  /\ n > window_size
        /\ pushed[1] # pushed[n]
        /\ SumRange(pushed, n - window_size + 1, n) % window_size # 0
        /\ ret.reasons = <<"Face not visible">>

\* the last window_size pushed scores all equal s
FullWindowOf(s) ==
    /\ Len(pushed) >= window_size
    /\ \A i \in (Len(pushed) - window_size + 1)..Len(pushed) : pushed[i] = s

\* C4: window_size consecutive frames with the same frame score s give rolling
\* average exactly s; 30 consecutive frames with only the face missing
\* (window_size 30, weight 40) give rolling average 40 and reasons
\* ["Face not visible"] on every frame.
C4_IdenticalFrames ==
    /\ \A s \in 0..100 : FullWindowOf(s) => ret.avg_score = s
    /\ (Len(pushed) > 0 /\ \A i \in 1..Len(pushed) : pushed[i] = 40) =>
          /\ ret.avg_score = 40
          /\ ret.reasons = <<"Face not visible">>

\* a different frame came first and was evicted by 30 frames with no face
C4_Witness ==
    /\ window_size = 30
    /\ Len(pushed) = 31
    /\ pushed[1] # 40
    /\ FullWindowOf(40)
    /\ ~results.face_present /\ ~results.multiple_faces
    /\ ret = [avg_score |-> 40, reasons |-> <<"Face not visible">>]

\* C5: the classifier yields at most one violation type, by the precedence
\* FACE_DISAPPEARED > MULTIPLE_FACES > OBJECT_DETECTED > MOUTH_MOVING; none
\* exactly when the face is present and the three other signals are false;
\* the gaze direction never influences the result.
C5_ClassifierPrecedence ==
    Len(pushed) > 0 =>
      LET r == results
          quiet == r.face_present /\ ~r.multiple_faces
                   /\ ~r.objects_detected /\ ~r.mouth_moving
      IN  /\ violation_type \in {"FACE_DISAPPEARED", "MULTIPLE_FACES",
                                  "OBJECT_DETECTED", "MOUTH_MOVING", "None"}
          /\ ~r.face_present => violation_type = "FACE_DISAPPEARED"
          /\ r.face_present /\ r.multiple_faces => violation_type = "MULTIPLE_FACES"
          /\ r.face_present /\ ~r.multiple_faces /\ r.objects_detected
                => violation_type = "OBJECT_DETECTED"
          /\ r.face_present /\ ~r.multiple_faces /\ ~r.objects_detected
                /\ r.mouth_moving => violation_type = "MOUTH_MOVING"
          /\ violation_type = "None" <=> quiet
          /\ \A g \in Gaze :
                Classify([r EXCEPT !.gaze_direction = g]) = violation_type

C5_Witness ==
    /\ Len(pushed) > 0
    /\ ~results.face_present /\ results.multiple_faces
    /\ results.gaze_direction = "Left"
    /\ violation_type = "FACE_DISAPPEARED"

----------------------------------------------------------------------------
(* Properties of the report statistics *)

\* the number of violations of type t in vs
CountOf(vs, t) == Cardinality({i \in 1..Len(vs) : vs[i].type = t})

RECURSIVE WeightSum(_, _)
\* the sum over the types in T of (violations of the type) * (its severity)
WeightSum(vs, T) ==
    IF T = {} THEN 0
    ELSE LET t == CHOOSE u \in T : TRUE
         IN  CountOf(vs, t) * SeverityGet(t) + WeightSum(vs, T \ {t})

\* C9: _calculate_stats returns total = number of violations, by_type[t] =
\* number of violations of type t, severity_score = sum of the severity weights
\* of the violations' types, average_severity = severity_score / total (0 for
\* the empty list) and a timeline with one entry per violation in input order.
C9_StatsOfViolations ==
    stats.computed =>
      LET st == stats.value
          vs == violations
      IN  /\ st.total = Len(vs)
          /\ DOMAIN st.by_type = {vs[i].type : i \in 1..Len(vs)}
          /\ \A t \in DOMAIN st.by_type : st.by_type[t] = CountOf(vs, t)
          /\ st.severity_score = WeightSum(vs, StatsTypes)
          /\ st.average_severity.den > 0
          /\ st.average_severity.num * st.total
                = st.severity_score * st.average_severity.den
          /\ Len(vs) = 0 => st.average_severity = ZeroAverage
          /\ Len(st.timeline) = Len(vs)
          /\ \A i \in 1..Len(vs) :
                st.timeline[i] = [time |-> vs[i].timestamp, type |-> vs[i].type,
                                  severity |-> SeverityGet(vs[i].type)]

\* two violations of a weight-2 type, then one of a weight-5 type
C9_Witness ==
    /\ stats.computed
    /\ Len(violations) = 3
    /\ violations[1].type = "GAZE_AWAY" /\ violations[2].type = "GAZE_AWAY"
    /\ violations[3].type = "OBJECT_DETECTED"
    /\ violations[1].timestamp = "t1" /\ violations[3].timestamp = "t2"
    /\ stats.value.total = 3
    /\ stats.value.by_type = [t \in {"GAZE_AWAY", "OBJECT_DETECTED"} |->
                                IF t = "GAZE_AWAY" THEN 2 ELSE 1]
    /\ stats.value.severity_score = 9
    /\ stats.value.average_severity = [num |-> 3, den |-> 1]

----------------------------------------------------------------------------
(* Properties of the alert system *)

\* this step is the cooldown test of a speak_alert call made by c
IsCheckBy(c) ==
    /\ call[c].pc = "idle"
    /\ n_calls' = n_calls + 1
    /\ \A d \in Callers \ {c} : call'[d] = call[d]

\* a speak_alert call is effective exactly when the cooldown has elapsed, and
\* an effective call, and no other, stores the time and starts one thread
EffectiveIffCooldownElapsed ==
    \A c \in Callers :
      /\ (IsCheckBy(c) /\ audio_enabled) =>
            LET t == call'[c].alert_type
            IN  /\ call'[c].pc = "set" <=>
                      clock - DictGet(last_alert_time, t, 0) >= alert_cooldown
                /\ call'[c].pc = "idle" =>
                      /\ emitted' = emitted
                      /\ threads' = threads
                      /\ last_alert_time' = last_alert_time
      /\ call[c].pc = "set" /\ call'[c].pc = "idle" =>
            LET t == call[c].alert_type
            IN  /\ emitted' = [emitted EXCEPT ![t] = @ + 1]
                /\ BagCardinality(threads') = BagCardinality(threads) + 1
                /\ t \in DOMAIN last_alert_time'

\* a type is emitted at most once per cooldown window
OneEmissionPerWindow ==
    \A t \in DispatchTypes : emitted[t] * alert_cooldown <= clock

\* C6: with audio enabled a dispatch of type T is effective exactly when
\* now - last_emit[T] >= cooldown (never emitted counts as time 0, exactly
\* cooldown elapsed is allowed): calls within one cooldown window give one
\* emission, and a call after the cooldown has elapsed emits again.
C6_CooldownRateLimit ==
    /\ [][EffectiveIffCooldownElapsed]_vars
    /\ []OneEmissionPerWindow

\* three calls: one emitted when exactly the cooldown had elapsed since time 0,
\* one suppressed, one emitted when exactly the cooldown had elapsed again
C6_Witness ==
    /\ audio_enabled
    /\ alert_cooldown = 2
    /\ n_calls = 3
    /\ call["main"] = [pc |-> "idle", alert_type |-> "FACE_DISAPPEARED"]
    /\ emitted["FACE_DISAPPEARED"] = 2
    /\ emitted["MOUTH_MOVING"] = 0 /\ emitted["UNLISTED"] = 0
    /\ last_alert_time["FACE_DISAPPEARED"] = 4
    /\ clock = 4

\* C7: if the audio device fails to initialise at construction, the flag is
\* never enabled again and every later dispatch returns without starting a
\* thread, without audio or temporary files and without changing the cooldown
\* state.
C7_DegradedModeIsPermanent ==
    ~audio_init_ok =>
      /\ ~audio_enabled
      /\ threads = EmptyBag
      /\ \A t \in DispatchTypes : emitted[t] = 0
      /\ last_alert_time = <<>>
      /\ temp_files_left = 0
      /\ \A c \in Callers : call[c].pc = "idle"

\* two dispatches were made in degraded mode, the latest when the cooldown
\* test alone would have let it through
C7_Witness ==
    /\ ~audio_init_ok
    /\ n_calls >= 2
    /\ call["main"] = [pc |-> "idle", alert_type |-> "MOUTH_MOVING"]
    /\ can_alert("MOUTH_MOVING")

\* C8: for every alert type the values stored in last_alert_time over any
\* sequence of dispatch calls never decrease, whatever the clock returns.
C8_CooldownTimesNeverDecrease ==
    [][\A t \in DOMAIN last_alert_time :
          last_alert_time'[t] >= last_alert_time[t]]_vars

\* C10: every temporary audio file created by a dispatch's thread is deleted
\* by the time the thread ends, on every exit path.
C10_TempFilesDeleted ==
    temp_files_left = 0

----------------------------------------------------------------------------
(* Properties of the frame score *)

\* 1 when the condition is present, 0 when it is not
Present(b) == IF b THEN 1 ELSE 0

\* the sum of the weights of the conditions present in r
WeightOfConditions(r) ==
    40 * Present(~r.face_present) + 50 * Present(r.multiple_faces)
      + 45 * Present(r.objects_detected) + 20 * Present(r.mouth_moving)
      + 15 * Present(r.gaze_direction # "Center")

\* the reason of every condition present in r, in the fixed order
ReasonsOfConditions(r) ==
    LET all == << [on |-> ~r.face_present, text |-> "Face not visible"],
                  [on |-> r.multiple_faces, text |-> "Multiple faces detected"],
                  [on |-> r.objects_detected, text |-> "Suspicious object detected"],
                  [on |-> r.mouth_moving, text |-> "Mouth movement detected"],
                  [on |-> r.gaze_direction # "Center",
                   text |-> "Looking away from screen"] >>
        present == SelectSeq(all, LAMBDA e : e.on)
    IN  [i \in 1..Len(present) |-> present[i].text]

\* C17: compute_frame_score returns min(100, sum of the weights of the
\* conditions present), with weights 40, 50, 45, 20 and 15, and one fixed reason
\* per present condition in the order face absence, multiple faces, object,
\* mouth movement, gaze away; a clamped score keeps all its reasons.
C17_ScoreAndReasons ==
    Len(pushed) > 0 =>
      /\ frame_score = (IF WeightOfConditions(results) > 100
                        THEN 100 ELSE WeightOfConditions(results))
      /\ ret.reasons = ReasonsOfConditions(results)

\* a frame with a second face, an object and a moving mouth and nothing else:
\* the sum 115 is clamped and all three reasons are returned
C17_Witness ==
    /\ Len(pushed) > 0
    /\ results = [face_present |-> TRUE, multiple_faces |-> TRUE,
                  objects_detected |-> TRUE, mouth_moving |-> TRUE,
                  gaze_direction |-> "Center"]
    /\ frame_score = 100
    /\ ret.reasons = << "Multiple faces detected", "Suspicious object detected",
                        "Mouth movement detected" >>

----------------------------------------------------------------------------
(* Properties of the _play_audio threads *)

\* this step is an exception raised in the try block of a _play_audio thread
\* and caught by its except clause
IsUnitFailure ==
    \E th \in BagToSet(threads) :
      /\ th.pc \in {"synth", "play"}
      /\ \E f \in {th.temp_path, "file"} :
            threads' = (threads (-) SetToBag({th}))
                         (+) SetToBag({[th EXCEPT !.pc = "finally", !.temp_path = f]})

\* a failure in a thread leaves the caller of speak_alert, the audio flag and
\* the cooldown state as they were, and with them the outcome of the cooldown
\* test of every type
UnitFailureIsContained ==
    IsUnitFailure =>
      /\ call' = call
      /\ audio_enabled' /\ audio_enabled
      /\ alert_cooldown' = alert_cooldown
      /\ last_alert_time' = last_alert_time
      /\ \A t \in DispatchTypes : can_alert(t)' = can_alert(t)

\* C11: a failure at any step of a _play_audio thread (synthesis, save, load,
\* playback) is caught inside the thread: it does not reach the caller of
\* speak_alert, changes neither the audio flag nor the cooldown state, and
\* leaves a later dispatch of another type as effective as it would have been.
C11_UnitFailureContained ==
    /\ [][UnitFailureIsContained]_vars
    /\ [](audio_enabled = audio_init_ok)

\* the synthesis of a FACE_DISAPPEARED alert failed before a file was made, and
\* the thread of a MOUTH_MOVING alert dispatched at a later time has started
C11_Witness ==
    /\ audio_enabled
    /\ [alert_type |-> "FACE_DISAPPEARED", pc |-> "finally", temp_path |-> "None"]
          \in BagToSet(threads)
    /\ [alert_type |-> "MOUTH_MOVING", pc |-> "start", temp_path |-> "None"]
          \in BagToSet(threads)
    /\ emitted["FACE_DISAPPEARED"] = 1 /\ emitted["MOUTH_MOVING"] = 1
    /\ last_alert_time["MOUTH_MOVING"] > last_alert_time["FACE_DISAPPEARED"]
    /\ call["main"] = [pc |-> "idle", alert_type |-> "MOUTH_MOVING"]

\* every change of last_alert_time is the write of a speak_alert call, made by
\* the calling thread in the step that ends with the start of the call's thread
CooldownWrittenByCaller ==
    last_alert_time' # last_alert_time =>
      \E c \in Callers :
        /\ call[c].pc = "set" /\ call'[c].pc = "idle"
        /\ last_alert_time' = DictSet(last_alert_time, call[c].alert_type, clock)
        /\ threads' = threads (+) SetToBag({NewThread(call[c].alert_type)})

\* a step of a _play_audio thread, which moves or ends a thread, leaves
\* last_alert_time as it was
ThreadsLeaveCooldown ==
    (threads' # threads /\ BagCardinality(threads') <= BagCardinality(threads))
      => last_alert_time' = last_alert_time

\* the time of a dispatch is stored by the time its thread exists
StoredBeforeStarted ==
    /\ \A th \in BagToSet(threads) : th.alert_type \in DOMAIN last_alert_time
    /\ \A t \in DispatchTypes : emitted[t] > 0 <=> t \in DOMAIN last_alert_time

\* C18: last_alert_time is written only by the thread that calls speak_alert,
\* and the write of a dispatch is made before its _play_audio thread is
\* started; no _play_audio thread touches last_alert_time, however the threads
\* and the calls interleave.
C18_SingleWriter ==
    /\ [][CooldownWrittenByCaller /\ ThreadsLeaveCooldown]_vars
    /\ []StoredBeforeStarted

\* the main thread is about to store the time of a second dispatch while the
\* thread of the first is playing
C18_Witness ==
    /\ call["main"] = [pc |-> "set", alert_type |-> "MOUTH_MOVING"]
    /\ emitted["FACE_DISAPPEARED"] = 1 /\ emitted["MOUTH_MOVING"] = 0
    /\ [alert_type |-> "FACE_DISAPPEARED", pc |-> "wait", temp_path |-> "file"]
          \in BagToSet(threads)
    /\ "MOUTH_MOVING" \notin DOMAIN last_alert_time
    /\ clock > last_alert_time["FACE_DISAPPEARED"]

\* the entry of type b changes only in the storing step of a dispatch of type b
OnlyOwnTypeWritten ==
    \A b \in DispatchTypes :
      DictGet(last_alert_time', b, -1) # DictGet(last_alert_time, b, -1) =>
        \E c \in Callers : call[c].pc = "set" /\ call[c].alert_type = b

\* the cooldown test of a dispatch of type b depends on the entry of b alone
OnlyOwnTypeRead ==
    \A c \in Callers :
      (IsCheckBy(c) /\ audio_enabled) =>
        LET b == call'[c].alert_type
            own == IF b \in DOMAIN last_alert_time THEN last_alert_time[b] ELSE 0
        IN  call'[c].pc = "set" <=> clock - own >= alert_cooldown

\* C20: the cooldowns of different types are independent: a dispatch of type A,
\* effective or suppressed, leaves the stored time of every other type B as it
\* was, and a dispatch of B is emitted when B's own cooldown has elapsed, even
\* right after an emission of A.
C20_TypesIndependent ==
    [][OnlyOwnTypeWritten /\ OnlyOwnTypeRead]_vars

\* MOUTH_MOVING was emitted at the very instant FACE_DISAPPEARED had been
C20_Witness ==
    /\ n_calls = 2
    /\ emitted["FACE_DISAPPEARED"] = 1 /\ emitted["MOUTH_MOVING"] = 1
    /\ call["main"] = [pc |-> "idle", alert_type |-> "MOUTH_MOVING"]
    /\ last_alert_time["FACE_DISAPPEARED"] = clock
    /\ last_alert_time["MOUTH_MOVING"] = clock

----------------------------------------------------------------------------
(* Properties of speak_alert called from two threads *)

\* C19: the cooldown test and the storing of the time are atomic with respect
\* to concurrent callers: of the calls of speak_alert(T) that several threads
\* make at overlapping times within one cooldown window, exactly one passes
\* the test and starts a thread.
C19_AtomicCheckAndSet ==
    /\ \A c, d \in ConcurrentCallers :
          (c # d /\ call[c].pc = "set" /\ call[d].pc = "set")
             => call[c].alert_type # call[d].alert_type
    /\ \A t \in ConcurrentTypes : emitted[t] * alert_cooldown <= clock

\* C19 as the code has it: the test and the store are two steps, so every
\* calling thread is effective at most once per cooldown window, and the
\* calls of several threads within one window can all be effective.
C19_OneEmissionPerCallerPerWindow ==
    \A t \in ConcurrentTypes :
      emitted[t] * alert_cooldown <= Cardinality(ConcurrentCallers) * clock

\* both threads called speak_alert(FACE_DISAPPEARED) within the first window
\* after the cooldown had elapsed, and both calls started a thread
C19_Witness ==
    /\ n_calls = 2
    /\ emitted["FACE_DISAPPEARED"] = 2
    /\ clock = alert_cooldown
    /\ \A c \in ConcurrentCallers :
          call[c] = [pc |-> "idle", alert_type |-> "FACE_DISAPPEARED"]

----------------------------------------------------------------------------
(* Properties of the session *)

\* C12: on every exit path of the session (no more frames, the q key, or an
\* exception raised in the setup, in the frame loop or in the report step of
\* the finally clause) every recorder that was started has been stopped when
\* main() is left.
C12_RecordersStoppedOnExit ==
    ~Running => (screen_recorder # "recording" /\ video_recorder # "recording")

\* C13: an exception raised in one frame by the calculator, the classifier or
\* speak_alert does not end the frame loop: the main thread stays in the loop
\* and goes on to the following frames.
C13_FrameFailureKeepsLoop ==
    [][(session_pc \in LoopPcs /\ exc' = "frame") => session_pc' \in LoopPcs]_vars

\* what the recorder is to hold after the frames fl: one entry for every frame
\* the classifier gave a label, in order, with the label and the frame's
\* rolling probability and reasons
RecordsOf(fl) ==
    LET labelled == SelectSeq(fl, LAMBDA f : f.type # "None")
    IN  [i \in 1..Len(labelled) |->
           [type |-> labelled[i].type,
            context |-> [cheating_probability |-> labelled[i].cheating_probability,
                         cheating_reasons |-> labelled[i].cheating_reasons]]]

\* the frames whose iteration has got past the call of log_violation; of a
\* last frame whose iteration may have raised, either is possible
FramesThroughRecord ==
    IF session_pc \in {"dispatch", "speak_alert"}
    THEN {Len(frame_log) - 1}
    ELSE IF exc # "none" /\ Len(frame_log) > 0
    THEN {Len(frame_log) - 1, Len(frame_log)}
    ELSE {Len(frame_log)}

\* C14: for every frame the loop has processed log_violation was called once
\* if the classifier gave the frame a label and not at all otherwise, with
\* that label and the frame's rolling probability and reasons, whether or not
\* the alert was suppressed by the cooldown or by disabled audio.
C14_RecordedOncePerLabelledFrame ==
    \E n \in FramesThroughRecord :
      violation_log = RecordsOf(SubSeq(frame_log, 1, n))

\* two frames without a face in one cooldown window: one alert, two records
C14_Witness ==
    /\ session_pc = "read"
    /\ audio_enabled
    /\ Len(frame_log) = 2
    /\ \A i \in 1..2 : frame_log[i].type = "FACE_DISAPPEARED"
    /\ emitted["FACE_DISAPPEARED"] = 1
    /\ n_calls = 2
    /\ Len(violation_log) = 2
    /\ violation_log[2].context.cheating_probability = 40

\* C15: generate_report never raises to main() and falls back in a fixed
\* order: when the PDF cannot be made (pdfkit missing, or the conversion
\* fails) the HTML file already written is returned; when the HTML report
\* cannot be made either, None is returned, and main() prints that the
\* report was skipped.
C15_ReportFallback ==
    /\ report.path = "pdf" =>
          PDFKIT_AVAILABLE /\ report.html_written /\ ~report.pdf_failed
    /\ report.path = "html" =>
          report.html_written /\ (~PDFKIT_AVAILABLE \/ report.pdf_failed)
    /\ report.html_written => report.path \in {"pdf", "html"}
    /\ report.pdf_failed => report.path = "html"
    /\ report.path = "None" <=> report.printed = "skipped"
    /\ report.path \in {"pdf", "html"} <=> report.printed = "generated"
    /\ session_pc \in {"stop", "done"} => report.printed # "nothing"
    /\ exc = "report" => report = NoReport

\* the conversion to PDF failed, the HTML report was returned and announced
C15_Witness ==
    /\ session_pc = "done"
    /\ PDFKIT_AVAILABLE
    /\ report = [html_written |-> TRUE, pdf_failed |-> TRUE, path |-> "html",
                 printed |-> "generated"]
    /\ Len(violation_log) = 2
    /\ stats.computed /\ stats.value.total = 2

\* C16: the frame loop never waits for an alert to be spoken: speak_alert
\* returns once the time is stored and the thread started, the thread is
\* never joined, and whatever the _play_audio threads are doing the main
\* thread can take its next step, through the following frames and to the end
\* of the session.
C16_LoopNeverWaitsForAudio ==
    Running => ENABLED MainStep

\* main() has returned after a second frame while the alert of the first
\* frame is still playing
C16_Witness ==
    /\ session_pc = "done"
    /\ Len(frame_log) = 2
    /\ frame_log[1].type = "FACE_DISAPPEARED"
    /\ emitted["FACE_DISAPPEARED"] = 1
    /\ threads = SetToBag({[alert_type |-> "FACE_DISAPPEARED", pc |-> "wait",
                            temp_path |-> "file"]})

----------------------------------------------------------------------------
(* Properties of an alert type that is not a key of alerts *)

\* the thread of a type without a message goes from its start straight to its
\* end: it never synthesizes, plays or holds a temporary file
UnlistedThreadsDoNothing ==
    \A th \in BagToSet(threads) :
      th.alert_type \notin alerts =>
        th.pc \in {"start", "finally"} /\ th.temp_path = "None"

\* a call for a type without a message is tested, stored and started like any
\* other, and suppressed while the stored time is less than a cooldown old
UnlistedDispatchedLikeAny ==
    \A c \in Callers :
      /\ (IsCheckBy(c) /\ audio_enabled /\ call'[c].alert_type \notin alerts) =>
            LET t == call'[c].alert_type
            IN  /\ clock - DictGet(last_alert_time, t, 0) >= alert_cooldown
                      => call'[c].pc = "set"
                /\ (t \in DOMAIN last_alert_time
                      /\ clock - last_alert_time[t] < alert_cooldown)
                      => /\ call'[c].pc = "idle"
                         /\ threads' = threads
                         /\ emitted' = emitted
      /\ (call[c].pc = "set" /\ call'[c].pc = "idle"
            /\ call[c].alert_type \notin alerts) =>
            LET t == call[c].alert_type
            IN  /\ last_alert_time'[t] = clock
                /\ threads' = threads (+) SetToBag({NewThread(t)})

\* C21: with audio enabled and the cooldown elapsed, a dispatch of a type that
\* is not a key of alerts still stores last_alert_time[type] = now and starts
\* a thread; the thread ends without synthesis, playback or temporary file,
\* and the type is suppressed for a full cooldown though nothing was spoken.
C21_UnlistedTypeConsumesCooldown ==
    /\ [][UnlistedDispatchedLikeAny]_vars
    /\ []UnlistedThreadsDoNothing

\* an UNLISTED alert was dispatched, its thread has ended leaving nothing, and
\* a second call within the cooldown window was suppressed
C21_Witness ==
    /\ audio_enabled
    /\ n_calls = 2
    /\ call["main"] = [pc |-> "idle", alert_type |-> "UNLISTED"]
    /\ emitted = [t \in DispatchTypes |-> IF t = "UNLISTED" THEN 1 ELSE 0]
    /\ "UNLISTED" \in DOMAIN last_alert_time
    /\ clock - last_alert_time["UNLISTED"] < alert_cooldown
    /\ threads = EmptyBag
    /\ temp_files_left = 0

====
